---------------------------- MODULE Spec2Model ----------------------------
(* A model of coady/iterset (src/iterset.go, the v0.4 part of the file    *)
(* that starts at line 242): lazy set algebra over Go iterators.          *)
(*                                                                        *)
(* A sequence producer (iter.Seq) backed by a slice is a TLA+ sequence;   *)
(* a MapSet is a function from its keys to values; a lazy sequence is a   *)
(* coroutine whose frame (pc and locals) is part of the state and which   *)
(* advances one basic block per step, up to its next yield or return.     *)
(* The consumer's answer to a yield (continue or break) is an input.      *)
EXTENDS Integers, Sequences, FiniteSets, TLC

\* ---------------------------------------------------------------- bounds
NVal == 2
MaxLen == 3
MaxSize == 1

Vals == 1..NVal

RECURSIVE SeqsUpTo(_)
SeqsUpTo(n) == IF n = 0 THEN {<<>>}
               ELSE SeqsUpTo(n - 1) \cup [1..n -> Vals]

Seqs == SeqsUpTo(MaxLen)

IsSorted(q) == \A x \in 1..Len(q) - 1 : q[x] <= q[x + 1]

Range(q) == {q[x] : x \in 1..Len(q)}

\* ------------------------------------------------------------- the state
VARIABLES
  op,        \* the library function under execution
  keys,      \* first argument: the driving sequence (a slice iterator)
  seq,       \* second argument: the other sequence (a slice iterator)
  more,      \* the sequences after seq of a variadic call
  m,         \* the receiver map of a MapSet method; the m of EqualCounts
  phase,     \* "new" | "built" (sequence value returned) | "run" | "done"
  round,     \* which iteration of the returned sequence value is running
  s,         \* the set a returned closure captures (outlives an iteration)
  pc,        \* position of the running iteration
  i,         \* elements of keys consumed by the running `for key := range keys`
  j,         \* elements of seq handed out by the running pull-cursor
  key,       \* loop variable key
  k,         \* k / value: the element last returned by next()
  ok,        \* ok of the last next()
  c,         \* c of the sorted merges
  sets,      \* the local sets of intersect and Equal, indexed as in the code
  current,   \* current of Compact / CompactBy
  count,     \* count of Compact
  group,     \* group of CompactBy
  closure,   \* which function value the call returned
  todo,      \* keys of m that `for key := range m` has still to visit
  out,       \* what the consumer was handed by yield in this iteration
  out1,      \* what the consumer was handed in the previous iteration
  result,    \* return value of a boolean function
  returned,  \* the function returned from inside its range loop
  pulledK,   \* elements pulled from keys since the call
  pulledS,   \* elements pulled from seq since the call
  created,   \* iter.Pull calls of the running iteration
  stopped,   \* stop() calls of the running iteration
  broke,     \* a yield of this iteration has returned false
  broke1,    \* a yield of the previous iteration had returned false
  late,      \* yields made after a yield had returned false
  size,      \* capacity of the channel of goChan
  ch,        \* the values buffered in the channel
  closed,    \* close(ch) has run
  cancelled, \* the context is cancelled
  wpc,       \* position of the goroutine goChan starts
  wval,      \* value of the goroutine's loop
  cpc,       \* position of the consumer of the channel
  cval,      \* the value the consumer received last
  sent,      \* values sent on the channel
  ctx0,      \* the context was cancelled already when goChan was called
  atCancel,  \* sent and pulled as they were when the context was cancelled
  m0         \* the receiver map as it was when the method was called

seqVars == <<op, keys, seq, more, m, m0, phase, round, s, pc, i, j, key, k, ok, c,
             sets, current, count, group, closure, todo, out, out1, result,
             returned, pulledK, pulledS, created, stopped, broke, broke1,
             late>>

goVars == <<size, ch, closed, cancelled, wpc, wval, cpc, cval, sent, ctx0,
            atCancel>>

vars == <<seqVars, goVars>>

\* The state as one record, so that a step is a function of it.
St == [op |-> op, keys |-> keys, seq |-> seq, more |-> more, m |-> m, phase |-> phase,
       round |-> round, s |-> s, pc |-> pc, i |-> i, j |-> j, key |-> key,
       k |-> k, ok |-> ok, c |-> c, sets |-> sets, current |-> current,
       count |-> count, group |-> group, closure |-> closure,
       todo |-> todo, out |-> out, out1 |-> out1,
       result |-> result, returned |-> returned, pulledK |-> pulledK,
       pulledS |-> pulledS, created |-> created, stopped |-> stopped,
       broke |-> broke, broke1 |-> broke1, late |-> late, m0 |-> m0]

Commit(n) ==
  /\ op' = n.op /\ keys' = n.keys /\ seq' = n.seq /\ more' = n.more
  /\ m' = n.m
  /\ phase' = n.phase /\ round' = n.round /\ s' = n.s /\ pc' = n.pc
  /\ i' = n.i /\ j' = n.j /\ key' = n.key /\ k' = n.k /\ ok' = n.ok
  /\ c' = n.c /\ sets' = n.sets /\ current' = n.current /\ count' = n.count
  /\ group' = n.group /\ closure' = n.closure
  /\ todo' = n.todo /\ out' = n.out /\ out1' = n.out1 /\ result' = n.result
  /\ returned' = n.returned /\ pulledK' = n.pulledK /\ pulledS' = n.pulledS
  /\ created' = n.created /\ stopped' = n.stopped /\ broke' = n.broke
  /\ broke1' = n.broke1 /\ late' = n.late /\ m0' = n.m0

EmptySets == [x \in 0..2 |-> {}]

EmptyMap == [x \in {} |-> 0]

\* The state at the call op(keys, seq) or m.op(keys).
Call(o, ks, sq, mp) ==
  [op |-> o, keys |-> ks, seq |-> sq, more |-> <<>>, m |-> mp, phase |-> "new", round |-> 0,
   s |-> {}, pc |-> "none", i |-> 0, j |-> 0, key |-> 0, k |-> 0,
   ok |-> FALSE, c |-> 0, sets |-> EmptySets, current |-> 0, count |-> 0,
   group |-> <<>>, closure |-> "main", todo |-> {}, out |-> <<>>, out1 |-> <<>>, result |-> FALSE,
   returned |-> FALSE, pulledK |-> 0, pulledS |-> 0, created |-> 0,
   stopped |-> 0, broke |-> FALSE, broke1 |-> FALSE, late |-> 0,
   m0 |-> mp]

\* ------------------------------------------------------------ primitives

\* yield(v) of the consumer's loop body; cont is what the body answers.
Yield(st, v, cont) ==
  [st EXCEPT !.out = Append(@, v),
             !.late = IF st.broke THEN @ + 1 ELSE @,
             !.broke = @ \/ ~cont]

\* next, stop := iter.Pull(seq)
Pull(st) == [st EXCEPT !.created = @ + 1, !.j = 0]

\* k, ok = next(): the next element of seq, or the zero value and false.
next(st) ==
  IF st.j < Len(st.seq)
  THEN [st EXCEPT !.k = st.seq[st.j + 1], !.ok = TRUE, !.j = @ + 1,
                  !.pulledS = @ + 1]
  ELSE [st EXCEPT !.k = 0, !.ok = FALSE]

\* ReturnStop without the `defer stop()` of lines 266, 288.
ReturnStop_NoDefer(st) == [st EXCEPT !.pc = "done"]

\* The function returns: its deferred stop() runs.
ReturnStop(st) == [st EXCEPT !.pc = "done", !.stopped = @ + 1]

\* for key := range keys: the loop has another element.
HasKey(st) == st.i < Len(st.keys)

\* for key := range keys: take it.
NextKey(st) ==
  [st EXCEPT !.key = st.keys[st.i + 1], !.i = @ + 1, !.pulledK = @ + 1]

\* m.pop(key): whether key was present, and m without it.
pop(set, x) == [found |-> x \in set, rest |-> set \ {x}]

\* ------------------------------------------------- zip and its consumers

\* intersect returning at line 311 on any unmatched element of the sequence
\* that is left, without the test len(sets[1-source.index]) == 0.
intersectBody_NoLen(st, v, index, empty, cont) ==
  LET p == pop(st.sets[1 - index], v)
      st1 == [st EXCEPT !.sets[1 - index] = p.rest]
  IN IF p.found
     THEN [st |-> Yield(st1, v, cont), go |-> cont]
     ELSE IF ~empty
     THEN [st |-> [st1 EXCEPT !.sets[index] = @ \cup {v}], go |-> TRUE]
     ELSE [st |-> st1, go |-> FALSE]

\* intersect with line 310 adding to sets[0] whatever the source is.
intersectBody_KeysOnly(st, v, index, empty, cont) ==
  LET p == pop(st.sets[1 - index], v)
      st1 == [st EXCEPT !.sets[1 - index] = p.rest]
  IN IF p.found
     THEN [st |-> Yield(st1, v, cont), go |-> cont]
     ELSE IF ~empty
     THEN [st |-> [st1 EXCEPT !.sets[0] = @ \cup {v}], go |-> TRUE]
     ELSE IF Cardinality(st1.sets[1 - index]) = 0
     THEN [st |-> st1, go |-> FALSE]
     ELSE [st |-> st1, go |-> TRUE]

\* Equal without the sets[2].Missing(key) test of line 393.
EqualBody_NoSeen(st, v, index, empty) ==
  LET p == pop(st.sets[1 - index], v)
      st1 == [st EXCEPT !.sets[1 - index] = p.rest]
      st2 == IF p.found
             THEN [st1 EXCEPT !.sets[2] = @ \cup {v}]
             ELSE [st1 EXCEPT !.sets[index] = @ \cup {v}]
  IN IF empty /\ Cardinality(st2.sets[index]) > 0
     THEN [st |-> [st2 EXCEPT !.result = FALSE, !.returned = TRUE],
           go |-> FALSE]
     ELSE [st |-> st2, go |-> TRUE]

\* The loop body of intersect (lines 305-313); go is FALSE when the body
\* returns from intersect, which makes zip's yield return false.
intersectBody(st, v, index, empty, cont) ==
  LET p == pop(st.sets[1 - index], v)
      st1 == [st EXCEPT !.sets[1 - index] = p.rest]
  IN IF p.found
     THEN [st |-> Yield(st1, v, cont), go |-> cont]
     ELSE IF ~empty
     THEN [st |-> [st1 EXCEPT !.sets[index] = @ \cup {v}], go |-> TRUE]
     ELSE IF Cardinality(st1.sets[1 - index]) = 0
     THEN [st |-> st1, go |-> FALSE]
     ELSE [st |-> st1, go |-> TRUE]

\* The loop body of Equal (lines 391-398).
EqualBody(st, v, index, empty) ==
  LET p == pop(st.sets[1 - index], v)
      st1 == [st EXCEPT !.sets[1 - index] = p.rest]
      st2 == IF p.found
             THEN [st1 EXCEPT !.sets[2] = @ \cup {v}]
             ELSE IF v \notin st1.sets[2]
             THEN [st1 EXCEPT !.sets[index] = @ \cup {v}]
             ELSE st1
  IN IF empty /\ Cardinality(st2.sets[index]) > 0
     THEN [st |-> [st2 EXCEPT !.result = FALSE, !.returned = TRUE],
           go |-> FALSE]
     ELSE [st |-> st2, go |-> TRUE]

\* Equal after its loop (line 400).
EqualAfter(st) ==
  IF st.returned THEN st
  ELSE [st EXCEPT !.result =
          (Cardinality(st.sets[0]) + Cardinality(st.sets[1]) = 0),
          !.returned = TRUE]

\* int(cmp.Or(source.index, -1)) (line 418): -1 for keys, 1 for seq.
countDelta(index) == IF index = 0 THEN -1 ELSE index

\* m[key] of a map of ints: the zero value when key is absent.
countAt(mp, x) == IF x \in DOMAIN mp THEN mp[x] ELSE 0

\* m[key] = n
countSet(mp, x, n) == [y \in DOMAIN mp \cup {x} |-> IF y = x THEN n ELSE mp[y]]

\* delete(m, key)
countDelete(mp, x) == [y \in DOMAIN mp \ {x} |-> mp[y]]

\* EqualCounts without the delete of lines 419-421.
EqualCountsBody_NoDelete(st, v, index, empty) ==
  IF empty
  THEN [st |-> [st EXCEPT !.result = FALSE, !.returned = TRUE], go |-> FALSE]
  ELSE [st |-> [st EXCEPT !.m = countSet(st.m, v,
                                         countAt(st.m, v) + countDelta(index))],
        go |-> TRUE]

\* The loop body of EqualCounts (lines 415-421); its local m is in m.
EqualCountsBody(st, v, index, empty) ==
  IF empty
  THEN [st |-> [st EXCEPT !.result = FALSE, !.returned = TRUE], go |-> FALSE]
  ELSE LET n == countAt(st.m, v) + countDelta(index)
           m1 == countSet(st.m, v, n)
       IN [st |-> [st EXCEPT !.m = IF n = 0 THEN countDelete(m1, v) ELSE m1],
           go |-> TRUE]

\* EqualCounts after its loop (line 423).
EqualCountsAfter(st) ==
  IF st.returned THEN st
  ELSE [st EXCEPT !.result = (Cardinality(DOMAIN st.m) = 0),
                  !.returned = TRUE]

\* What zip's yield(v, zipSource{index, empty}) runs: the loop body of the
\* function ranging over zip; for zip itself, the consumer.
zipBody(st, v, index, empty, cont) ==
  CASE st.op = "zip" ->
         [st |-> Yield(st, <<v, index, empty>>, cont), go |-> cont]
    [] st.op = "Intersect" -> intersectBody(st, v, index, empty, cont)
    [] st.op = "Equal" -> EqualBody(st, v, index, empty)
    [] st.op = "EqualCounts" -> EqualCountsBody(st, v, index, empty)

\* zip returns (stop() deferred), then the code after the range loop runs.
zipReturn(st) ==
  LET n == ReturnStop(st)
  IN IF st.op = "Equal" THEN EqualAfter(n)
     ELSE IF st.op = "EqualCounts" THEN EqualCountsAfter(n)
     ELSE n

\* zip giving zipSource{} with every element of keys: empty never set.
zipEmpty_Never(okv) == FALSE

\* The empty flag zip gives the element of keys (line 291).
zipEmpty(okv) == ~okv

\* zip without the second yield of line 291: the element pulled from seq in
\* a round is dropped.
zipStep_NoSecond(st, cont) ==
  CASE st.pc = "start" -> [Pull(st) EXCEPT !.pc = "loop"]
    [] st.pc = "loop" ->
         IF HasKey(st) THEN [next(NextKey(st)) EXCEPT !.pc = "first"]
         ELSE [st EXCEPT !.pc = "tail"]
    [] st.pc = "first" ->
         LET b == zipBody(st, st.key, 0, zipEmpty(st.ok), cont)
         IN IF ~b.go THEN zipReturn(b.st) ELSE [b.st EXCEPT !.pc = "loop"]
    [] st.pc = "tail" ->
         LET n == next(st)
         IN IF ~n.ok THEN zipReturn(n)
            ELSE LET b == zipBody(n, n.k, 1, TRUE, cont)
                 IN IF b.go THEN b.st ELSE zipReturn(b.st)

\* One step of zip (lines 286-298).
zipStep(st, cont) ==
  CASE st.pc = "start" -> [Pull(st) EXCEPT !.pc = "loop"]
    [] st.pc = "loop" ->
         IF HasKey(st) THEN [next(NextKey(st)) EXCEPT !.pc = "first"]
         ELSE [st EXCEPT !.pc = "tail"]
    [] st.pc = "first" ->
         LET b == zipBody(st, st.key, 0, zipEmpty(st.ok), cont)
         IN IF ~b.go THEN zipReturn(b.st)
            ELSE IF st.ok THEN [b.st EXCEPT !.pc = "second"]
            ELSE [b.st EXCEPT !.pc = "loop"]
    [] st.pc = "second" ->
         LET b == zipBody(st, st.k, 1, FALSE, cont)
         IN IF ~b.go THEN zipReturn(b.st) ELSE [b.st EXCEPT !.pc = "loop"]
    [] st.pc = "tail" ->
         LET n == next(st)
         IN IF ~n.ok THEN zipReturn(n)
            ELSE LET b == zipBody(n, n.k, 1, TRUE, cont)
                 IN IF b.go THEN b.st ELSE zipReturn(b.st)

\* ------------------------------------------------------------ difference

\* difference with the inner loop of line 269 running only while k differs
\* from key, `for ok && k != key`, so that s is not consulted there.
differenceStep_NoSeen(st, cont) ==
  CASE st.pc = "start" -> [next(Pull(st)) EXCEPT !.pc = "loop"]
    [] st.pc = "loop" ->
         IF HasKey(st) THEN [NextKey(st) EXCEPT !.pc = "inner"]
         ELSE ReturnStop(st)
    [] st.pc = "inner" ->
         IF st.ok /\ st.k # st.key
         THEN next([st EXCEPT !.s = @ \cup {st.k}])
         ELSE IF st.key \notin st.s
         THEN IF cont THEN [Yield(st, st.key, cont) EXCEPT !.pc = "loop"]
              ELSE ReturnStop(Yield(st, st.key, cont))
         ELSE [st EXCEPT !.pc = "loop"]

\* difference with s.add(key) for the s.add(k) of line 270.
differenceStep_AddKey(st, cont) ==
  CASE st.pc = "start" -> [next(Pull(st)) EXCEPT !.pc = "loop"]
    [] st.pc = "loop" ->
         IF HasKey(st) THEN [NextKey(st) EXCEPT !.pc = "inner"]
         ELSE ReturnStop(st)
    [] st.pc = "inner" ->
         IF st.ok /\ st.key \notin st.s
         THEN next([st EXCEPT !.s = @ \cup {st.key}])
         ELSE IF st.key \notin st.s
         THEN IF cont THEN [Yield(st, st.key, cont) EXCEPT !.pc = "loop"]
              ELSE ReturnStop(Yield(st, st.key, cont))
         ELSE [st EXCEPT !.pc = "loop"]

\* One step of the sequence difference returns (lines 264-277).
differenceStep(st, cont) ==
  CASE st.pc = "start" -> [next(Pull(st)) EXCEPT !.pc = "loop"]
    [] st.pc = "loop" ->
         IF HasKey(st) THEN [NextKey(st) EXCEPT !.pc = "inner"]
         ELSE ReturnStop(st)
    [] st.pc = "inner" ->
         IF st.ok /\ st.key \notin st.s
         THEN next([st EXCEPT !.s = @ \cup {st.k}])
         ELSE IF st.key \notin st.s
         THEN IF cont THEN [Yield(st, st.key, cont) EXCEPT !.pc = "loop"]
              ELSE ReturnStop(Yield(st, st.key, cont))
         ELSE [st EXCEPT !.pc = "loop"]

\* --------------------------------------------------------- sorted merges

\* cmp.Compare
compare(a, b) == IF a < b THEN -1 ELSE IF a > b THEN 1 ELSE 0

\* sortedUnionFunc without the loop of lines 1027-1029 that drains values.
sortedUnionStep_NoTail(st, cont) ==
  CASE st.pc = "start" -> [next(Pull(st)) EXCEPT !.pc = "loop"]
    [] st.pc = "loop" ->
         IF HasKey(st) THEN [NextKey(st) EXCEPT !.pc = "inner"]
         ELSE ReturnStop(st)
    [] st.pc = "inner" ->
         IF st.ok /\ compare(st.key, st.k) > 0
         THEN IF cont THEN next(Yield(st, st.k, cont))
              ELSE ReturnStop(Yield(st, st.k, cont))
         ELSE IF cont THEN [Yield(st, st.key, cont) EXCEPT !.pc = "loop"]
              ELSE ReturnStop(Yield(st, st.key, cont))

\* One step of sortedUnionFunc (lines 1012-1030).
sortedUnionStep(st, cont) ==
  CASE st.pc = "start" -> [next(Pull(st)) EXCEPT !.pc = "loop"]
    [] st.pc = "loop" ->
         IF HasKey(st) THEN [NextKey(st) EXCEPT !.pc = "inner"]
         ELSE [st EXCEPT !.pc = "tail"]
    [] st.pc = "inner" ->
         IF st.ok /\ compare(st.key, st.k) > 0
         THEN IF cont THEN next(Yield(st, st.k, cont))
              ELSE ReturnStop(Yield(st, st.k, cont))
         ELSE IF cont THEN [Yield(st, st.key, cont) EXCEPT !.pc = "loop"]
              ELSE ReturnStop(Yield(st, st.key, cont))
    [] st.pc = "tail" ->
         IF st.ok
         THEN IF cont THEN next(Yield(st, st.k, cont))
              ELSE ReturnStop(Yield(st, st.k, cont))
         ELSE ReturnStop(st)

\* The lookahead loop shared by sortedIntersectFunc and sortedDifferenceFunc
\* (lines 1049-1056, 1080-1087): one turn of `for ok`, or its exit with c set.
advance(st) ==
  IF st.ok /\ compare(st.key, st.k) > 0
  THEN [next(st) EXCEPT !.c = compare(st.key, st.k)]
  ELSE [st EXCEPT !.c = IF st.ok THEN compare(st.key, st.k) ELSE @,
                  !.pc = "test"]

\* One step of Keys(sortedIntersectFunc(...)) (lines 1044-1061, 995-997).
sortedIntersectStep(st, cont) ==
  CASE st.pc = "start" -> [next(Pull(st)) EXCEPT !.pc = "loop"]
    [] st.pc = "loop" ->
         IF HasKey(st) THEN [NextKey(st) EXCEPT !.c = 1, !.pc = "inner"]
         ELSE ReturnStop(st)
    [] st.pc = "inner" -> advance(st)
    [] st.pc = "test" ->
         IF ~st.ok THEN ReturnStop(st)
         ELSE IF st.c = 0
         THEN IF cont THEN [Yield(st, st.key, cont) EXCEPT !.pc = "loop"]
              ELSE ReturnStop(Yield(st, st.key, cont))
         ELSE [st EXCEPT !.pc = "loop"]

\* sortedDifferenceFunc with `c := 0` at line 1080: a key met after values
\* is exhausted compares as equal.
sortedDifferenceStep_ZeroC(st, cont) ==
  CASE st.pc = "start" -> [next(Pull(st)) EXCEPT !.pc = "loop"]
    [] st.pc = "loop" ->
         IF HasKey(st) THEN [NextKey(st) EXCEPT !.c = 0, !.pc = "inner"]
         ELSE ReturnStop(st)
    [] st.pc = "inner" -> advance(st)
    [] st.pc = "test" ->
         IF st.c # 0
         THEN IF cont THEN [Yield(st, st.key, cont) EXCEPT !.pc = "loop"]
              ELSE ReturnStop(Yield(st, st.key, cont))
         ELSE [st EXCEPT !.pc = "loop"]

\* One step of sortedDifferenceFunc (lines 1075-1092).
sortedDifferenceStep(st, cont) ==
  CASE st.pc = "start" -> [next(Pull(st)) EXCEPT !.pc = "loop"]
    [] st.pc = "loop" ->
         IF HasKey(st) THEN [NextKey(st) EXCEPT !.c = 1, !.pc = "inner"]
         ELSE ReturnStop(st)
    [] st.pc = "inner" -> advance(st)
    [] st.pc = "test" ->
         IF st.c # 0
         THEN IF cont THEN [Yield(st, st.key, cont) EXCEPT !.pc = "loop"]
              ELSE ReturnStop(Yield(st, st.key, cont))
         ELSE [st EXCEPT !.pc = "loop"]

\* ------------------------------------------------------------ transforms

\* A function returns that holds no pull-cursor.
Return(st) == [st EXCEPT !.pc = "done"]

\* The key function handed to UniqueBy and CompactBy: not injective, as
\* strings.ToLower of the tests.
keyFn(v) == (v + 1) \div 2

\* Unique with `s := Set[K]()` of line 720 hoisted out of the closure, as it
\* is in difference: s is not reset when an iteration starts.
UniqueStep_Hoisted(st, cont) ==
  CASE st.pc = "start" -> [st EXCEPT !.pc = "loop"]
    [] st.pc = "loop" ->
         IF ~HasKey(st) THEN Return(st)
         ELSE LET n == NextKey(st)
              IN IF n.key \notin n.s
                 THEN IF cont
                      THEN [Yield(n, n.key, cont) EXCEPT !.s = @ \cup {n.key}]
                      ELSE Return(Yield(n, n.key, cont))
                 ELSE [n EXCEPT !.s = @ \cup {n.key}]

\* Unique remembering only the element before, as Compact does: line 725
\* replaces s by the set of key alone.
UniqueStep_LastOnly(st, cont) ==
  CASE st.pc = "start" -> [st EXCEPT !.s = {}, !.pc = "loop"]
    [] st.pc = "loop" ->
         IF ~HasKey(st) THEN Return(st)
         ELSE LET n == NextKey(st)
              IN IF n.key \notin n.s
                 THEN IF cont
                      THEN [Yield(n, n.key, cont) EXCEPT !.s = {n.key}]
                      ELSE Return(Yield(n, n.key, cont))
                 ELSE [n EXCEPT !.s = {n.key}]

\* One step of Unique (lines 719-727).
UniqueStep(st, cont) ==
  CASE st.pc = "start" -> [st EXCEPT !.s = {}, !.pc = "loop"]
    [] st.pc = "loop" ->
         IF ~HasKey(st) THEN Return(st)
         ELSE LET n == NextKey(st)
              IN IF n.key \notin n.s
                 THEN IF cont
                      THEN [Yield(n, n.key, cont) EXCEPT !.s = @ \cup {n.key}]
                      ELSE Return(Yield(n, n.key, cont))
                 ELSE [n EXCEPT !.s = @ \cup {n.key}]

\* One step of UniqueBy (lines 741-750).
UniqueByStep(st, cont) ==
  CASE st.pc = "start" -> [st EXCEPT !.s = {}, !.pc = "loop"]
    [] st.pc = "loop" ->
         IF ~HasKey(st) THEN Return(st)
         ELSE LET n == NextKey(st)
                  kk == keyFn(n.key)
              IN IF kk \notin n.s
                 THEN IF cont
                      THEN [Yield(n, <<kk, n.key>>, cont)
                              EXCEPT !.s = @ \cup {kk}]
                      ELSE Return(Yield(n, <<kk, n.key>>, cont))
                 ELSE [n EXCEPT !.s = @ \cup {kk}]

\* Compact without the yield of the last run (lines 772-774).
CompactStep_NoFlush(st, cont) ==
  CASE st.pc = "start" -> [st EXCEPT !.current = 0, !.count = 0, !.pc = "loop"]
    [] st.pc = "loop" ->
         IF HasKey(st) THEN [NextKey(st) EXCEPT !.pc = "body"]
         ELSE Return(st)
    [] st.pc = "body" ->
         IF st.count > 0 /\ st.key # st.current
         THEN IF cont
              THEN [Yield(st, <<st.current, st.count>>, cont)
                      EXCEPT !.count = 1, !.current = st.key, !.pc = "loop"]
              ELSE Return(Yield(st, <<st.current, st.count>>, cont))
         ELSE [st EXCEPT !.current = st.key, !.count = @ + 1, !.pc = "loop"]

\* Compact with `break` for the `return` of line 765: the loop is left, and
\* the yield of lines 772-774 hands the same run to the consumer again.
CompactStep_BreakFlush(st, cont) ==
  CASE st.pc = "start" -> [st EXCEPT !.current = 0, !.count = 0, !.pc = "loop"]
    [] st.pc = "loop" ->
         IF HasKey(st) THEN [NextKey(st) EXCEPT !.pc = "body"]
         ELSE IF st.count > 0
         THEN Return(Yield(st, <<st.current, st.count>>, cont))
         ELSE Return(st)
    [] st.pc = "body" ->
         IF st.count > 0 /\ st.key # st.current
         THEN IF cont
              THEN [Yield(st, <<st.current, st.count>>, cont)
                      EXCEPT !.count = 1, !.current = st.key, !.pc = "loop"]
              ELSE Return(Yield(Yield(st, <<st.current, st.count>>, cont),
                                <<st.current, st.count>>, TRUE))
         ELSE [st EXCEPT !.current = st.key, !.count = @ + 1, !.pc = "loop"]

\* One step of Compact (lines 759-775).
CompactStep(st, cont) ==
  CASE st.pc = "start" -> [st EXCEPT !.current = 0, !.count = 0, !.pc = "loop"]
    [] st.pc = "loop" ->
         IF HasKey(st) THEN [NextKey(st) EXCEPT !.pc = "body"]
         ELSE IF st.count > 0
         THEN Return(Yield(st, <<st.current, st.count>>, cont))
         ELSE Return(st)
    [] st.pc = "body" ->
         IF st.count > 0 /\ st.key # st.current
         THEN IF cont
              THEN [Yield(st, <<st.current, st.count>>, cont)
                      EXCEPT !.count = 1, !.current = st.key, !.pc = "loop"]
              ELSE Return(Yield(st, <<st.current, st.count>>, cont))
         ELSE [st EXCEPT !.current = st.key, !.count = @ + 1, !.pc = "loop"]

\* One step of CompactBy (lines 784-801); the pulled value is in key.
CompactByStep(st, cont) ==
  CASE st.pc = "start" ->
         [st EXCEPT !.current = 0, !.group = <<>>, !.pc = "loop"]
    [] st.pc = "loop" ->
         IF HasKey(st) THEN [NextKey(st) EXCEPT !.pc = "body"]
         ELSE IF st.group # <<>>
         THEN Return(Yield(st, <<st.current, st.group>>, cont))
         ELSE Return(st)
    [] st.pc = "body" ->
         LET kk == keyFn(st.key)
         IN IF st.group # <<>> /\ kk # st.current
            THEN IF cont
                 THEN [Yield(st, <<st.current, st.group>>, cont)
                         EXCEPT !.group = <<st.key>>, !.current = kk,
                                !.pc = "loop"]
                 ELSE Return(Yield(st, <<st.current, st.group>>, cont))
            ELSE [st EXCEPT !.current = kk, !.group = Append(@, st.key),
                            !.pc = "loop"]

\* ----------------------------------------------------------- MapSet methods

\* len(m)
len(mp) == Cardinality(DOMAIN mp)

\* m.intersect with the break of line 338 inside the if of line 334: the
\* scan stops at the first key that m contains.
RECURSIVE mapIntersect_BreakOnHit(_)
mapIntersect_BreakOnHit(st) ==
  IF ~HasKey(st) THEN st
  ELSE LET n == NextKey(st)
       IN IF n.key \in DOMAIN n.m THEN [n EXCEPT !.s = @ \cup {n.key}]
          ELSE mapIntersect_BreakOnHit(n)

\* m.intersect(keys) (lines 331-342), run to its end: s, and what it pulled.
RECURSIVE mapIntersect(_)
mapIntersect(st) ==
  IF ~HasKey(st) THEN st
  ELSE LET n == NextKey(st)
           n2 == IF n.key \in DOMAIN n.m THEN [n EXCEPT !.s = @ \cup {n.key}]
                 ELSE n
       IN IF len(n2.m) = Cardinality(n2.s) THEN n2 ELSE mapIntersect(n2)

\* for key := range m: Go fixes no order, pick is the key visited next.
RangeStart(st) == [st EXCEPT !.todo = DOMAIN st.m, !.pc = "range"]

\* One step of an iteration of keys itself (slices.Values), which the
\* methods return when m is empty (lines 642, 659).
keysStep(st, cont) ==
  CASE st.pc = "start" -> [st EXCEPT !.pc = "loop"]
    [] st.pc = "loop" ->
         IF ~HasKey(st) THEN Return(st)
         ELSE IF cont THEN Yield(NextKey(st), NextKey(st).key, cont)
         ELSE Return(Yield(NextKey(st), NextKey(st).key, cont))

\* One step of maps.All(m) (line 567).
allStep(st, cont, pick) ==
  CASE st.pc = "start" -> RangeStart(st)
    [] st.pc = "range" ->
         IF st.todo = {} THEN Return(st)
         ELSE LET n == [st EXCEPT !.todo = @ \ {pick}]
              IN IF cont THEN Yield(n, <<pick, st.m[pick]>>, cont)
                 ELSE Return(Yield(n, <<pick, st.m[pick]>>, cont))

\* One step of the closure MapSet.Intersect returns (lines 569-576).
mapIntersectStep(st, cont) ==
  CASE st.pc = "start" -> [st EXCEPT !.pc = "loop"]
    [] st.pc = "loop" ->
         IF ~HasKey(st) THEN Return(st)
         ELSE LET n == NextKey(st)
              IN IF n.key \in DOMAIN n.m
                 THEN IF cont THEN Yield(n, <<n.key, n.m[n.key]>>, cont)
                      ELSE Return(Yield(n, <<n.key, n.m[n.key]>>, cont))
                 ELSE n

\* One step of the closure MapSet.Difference returns (lines 610-616).
mapDifferenceStep(st, cont, pick) ==
  CASE st.pc = "start" -> RangeStart(st)
    [] st.pc = "range" ->
         IF st.todo = {} THEN Return(st)
         ELSE LET n == [st EXCEPT !.todo = @ \ {pick}]
              IN IF pick \notin n.s
                 THEN IF cont THEN Yield(n, <<pick, st.m[pick]>>, cont)
                      ELSE Return(Yield(n, <<pick, st.m[pick]>>, cont))
                 ELSE n

\* One step of the closure ReverseDifference returns (lines 644-646).
reverseDifferenceStep(st, cont) ==
  CASE st.pc = "start" -> [st EXCEPT !.pc = "loop"]
    [] st.pc = "loop" ->
         IF ~HasKey(st) THEN Return(st)
         ELSE LET n == NextKey(st)
              IN IF n.key \in DOMAIN n.m THEN n
                 ELSE IF cont THEN Yield(n, n.key, cont)
                 ELSE Return(Yield(n, n.key, cont))

\* SymmetricDifference without the s.add(key) of line 665.
symmetricDifferenceStep_NoTrack(st, cont, pick) ==
  CASE st.pc = "start" -> [st EXCEPT !.pc = "loop"]
    [] st.pc = "loop" ->
         IF HasKey(st)
         THEN LET n == NextKey(st)
              IN IF n.key \in DOMAIN n.m THEN n
                 ELSE IF cont THEN Yield(n, n.key, cont)
                 ELSE Return(Yield(n, n.key, cont))
         ELSE IF len(st.m) = Cardinality(st.s) THEN Return(st)
         ELSE RangeStart(st)
    [] st.pc = "range" ->
         IF st.todo = {} THEN Return(st)
         ELSE LET n == [st EXCEPT !.todo = @ \ {pick}]
              IN IF pick \notin n.s
                 THEN IF cont THEN Yield(n, pick, cont)
                      ELSE Return(Yield(n, pick, cont))
                 ELSE n

\* SymmetricDifference written as MapSet.Difference is: s := m.intersect(keys)
\* first, then the loop over m (lines 673-677), then the loop over keys.
symmetricDifferenceStep_MapFirst(st, cont, pick) ==
  CASE st.pc = "start" ->
         RangeStart([st EXCEPT !.s = DOMAIN st.m \cap Range(st.keys)])
    [] st.pc = "range" ->
         IF st.todo = {} THEN [st EXCEPT !.pc = "loop"]
         ELSE LET n == [st EXCEPT !.todo = @ \ {pick}]
              IN IF pick \notin n.s
                 THEN IF cont THEN Yield(n, pick, cont)
                      ELSE Return(Yield(n, pick, cont))
                 ELSE n
    [] st.pc = "loop" ->
         IF HasKey(st)
         THEN LET n == NextKey(st)
              IN IF n.key \in DOMAIN n.m THEN n
                 ELSE IF cont THEN Yield(n, n.key, cont)
                 ELSE Return(Yield(n, n.key, cont))
         ELSE Return(st)

\* One step of the closure SymmetricDifference returns (lines 662-678).
symmetricDifferenceStep(st, cont, pick) ==
  CASE st.pc = "start" -> [st EXCEPT !.pc = "loop"]
    [] st.pc = "loop" ->
         IF HasKey(st)
         THEN LET n == NextKey(st)
              IN IF n.key \in DOMAIN n.m THEN [n EXCEPT !.s = @ \cup {n.key}]
                 ELSE IF cont THEN Yield(n, n.key, cont)
                 ELSE Return(Yield(n, n.key, cont))
         ELSE IF len(st.m) = Cardinality(st.s) THEN Return(st)
         ELSE RangeStart(st)
    [] st.pc = "range" ->
         IF st.todo = {} THEN Return(st)
         ELSE LET n == [st EXCEPT !.todo = @ \ {pick}]
              IN IF pick \notin n.s
                 THEN IF cont THEN Yield(n, pick, cont)
                      ELSE Return(Yield(n, pick, cont))
                 ELSE n

\* The value argument of Toggle (line 531): a value no map of Maps holds.
value == 9

\* Toggle without the delete of line 534: a present key stays.
ToggleStep_NoDelete(st) ==
  CASE st.pc = "start" -> [st EXCEPT !.pc = "loop"]
    [] st.pc = "loop" ->
         IF ~HasKey(st) THEN [Return(st) EXCEPT !.returned = TRUE]
         ELSE LET n == NextKey(st)
              IN IF n.key \in DOMAIN n.m THEN n
                 ELSE [n EXCEPT !.m = countSet(n.m, n.key, value)]

\* One step of MapSet.Toggle (lines 532-538), which changes m itself.
ToggleStep(st) ==
  CASE st.pc = "start" -> [st EXCEPT !.pc = "loop"]
    [] st.pc = "loop" ->
         IF ~HasKey(st) THEN [Return(st) EXCEPT !.returned = TRUE]
         ELSE LET n == NextKey(st)
              IN IF n.key \in DOMAIN n.m
                 THEN [n EXCEPT !.m = countDelete(n.m, n.key)]
                 ELSE [n EXCEPT !.m = countSet(n.m, n.key, value)]

\* MapSet.IsSubset returns (line 436): len(m) == len(m.intersect(keys)).
mapIsSubsetReturn(st) ==
  [Return(st) EXCEPT !.result = (len(st.m) = Cardinality(st.s)),
                     !.returned = TRUE]

\* One step of MapSet.IsSubset (lines 435-437): one turn of the loop of
\* m.intersect (lines 332-341), then the comparison of the lengths.
mapIsSubsetStep(st) ==
  CASE st.pc = "start" -> [st EXCEPT !.s = {}, !.pc = "loop"]
    [] st.pc = "loop" ->
         IF ~HasKey(st) THEN mapIsSubsetReturn(st)
         ELSE LET n == NextKey(st)
                  n2 == IF n.key \in DOMAIN n.m
                        THEN [n EXCEPT !.s = @ \cup {n.key}]
                        ELSE n
              IN IF len(n2.m) = Cardinality(n2.s) THEN mapIsSubsetReturn(n2)
                 ELSE n2

\* ------------------------------------------------- call, iterate, step

ZipOps == {"zip", "Intersect", "Equal", "EqualCounts"}

\* The methods that run when called and return no sequence.
MethodOps == {"m.Toggle", "m.IsSubset"}

\* Functions that run when called; the others return a lazy sequence.
EagerOps == {"Equal", "EqualCounts", "goChan"} \cup MethodOps

\* The functions that start a goroutine.
GoOps == {"GoIter", "goChan"}

MapOps == {"m.Intersect", "m.Difference", "m.ReverseDifference",
           "m.SymmetricDifference"}

\* The call up to its return of the sequence value: the code outside the
\* returned closure (lines 263, 566-568, 606-609, 641-643, 658-661).
Construct(st) ==
  LET n == CASE st.op = "m.Intersect" ->
                  [st EXCEPT !.closure = IF len(st.m) = 0 THEN "all"
                                         ELSE "main"]
             [] st.op = "m.Difference" ->
                  LET r == mapIntersect([st EXCEPT !.s = {}])
                  IN [r EXCEPT !.closure = IF len(r.m) = Cardinality(r.s)
                                           THEN "none" ELSE "main"]
             [] st.op \in {"m.ReverseDifference", "m.SymmetricDifference"} ->
                  [st EXCEPT !.s = {},
                             !.closure = IF len(st.m) = 0 THEN "keys"
                                         ELSE "main"]
             [] OTHER -> [st EXCEPT !.s = {}, !.closure = "main"]
  IN [n EXCEPT !.phase = "built"]

\* The consumer starts to range over the sequence value (or, for an eager
\* function, the call starts): a fresh frame; the captured s stays.
Begin(st) ==
  [st EXCEPT !.phase = "run", !.round = @ + 1, !.pc = "start", !.i = 0,
             !.j = 0, !.key = 0, !.k = 0, !.ok = FALSE, !.c = 0,
             !.sets = EmptySets, !.current = 0, !.count = 0, !.group = <<>>,
             !.todo = {}, !.out1 = st.out, !.out = <<>>, !.created = 0,
             !.stopped = 0, !.broke = FALSE, !.broke1 = st.broke]

\* One step of the running iteration.
Body(st, cont, pick) ==
  CASE st.closure = "keys" -> keysStep(st, cont)
    [] st.closure = "all" -> allStep(st, cont, pick)
    [] st.closure = "none" -> Return(st)
    [] st.closure = "main" /\ st.op \in ZipOps -> zipStep(st, cont)
    [] st.closure = "main" /\ st.op = "Difference" -> differenceStep(st, cont)
    [] st.closure = "main" /\ st.op = "SortedUnion" ->
         sortedUnionStep(st, cont)
    [] st.closure = "main" /\ st.op = "SortedIntersect" ->
         sortedIntersectStep(st, cont)
    [] st.closure = "main" /\ st.op = "SortedDifference" ->
         sortedDifferenceStep(st, cont)
    [] st.closure = "main" /\ st.op = "Unique" -> UniqueStep(st, cont)
    [] st.closure = "main" /\ st.op = "UniqueBy" -> UniqueByStep(st, cont)
    [] st.closure = "main" /\ st.op = "Compact" -> CompactStep(st, cont)
    [] st.closure = "main" /\ st.op = "CompactBy" -> CompactByStep(st, cont)
    [] st.closure = "main" /\ st.op = "m.Intersect" ->
         mapIntersectStep(st, cont)
    [] st.closure = "main" /\ st.op = "m.Difference" ->
         mapDifferenceStep(st, cont, pick)
    [] st.closure = "main" /\ st.op = "m.ReverseDifference" ->
         reverseDifferenceStep(st, cont)
    [] st.closure = "main" /\ st.op = "m.SymmetricDifference" ->
         symmetricDifferenceStep(st, cont, pick)
    [] st.closure = "main" /\ st.op = "m.Toggle" -> ToggleStep(st)
    [] st.closure = "main" /\ st.op = "m.IsSubset" -> mapIsSubsetStep(st)

StepFn(st, cont, pick) ==
  LET n == Body(st, cont, pick)
  IN IF n.pc = "done" THEN [n EXCEPT !.phase = "done"] ELSE n

Picks(st) == IF st.todo = {} THEN {0} ELSE st.todo

\* The least key: the order in which a full run visits a map when the
\* order does not matter to what is computed.
Least(S) == CHOOSE x \in S : \A y \in S : x <= y

\* A full iteration by a consumer that never breaks.
RECURSIVE RunAll(_)
RunAll(st) ==
  IF st.phase = "done" THEN st
  ELSE RunAll(StepFn(st, TRUE, Least(Picks(st))))

\* The call and one full iteration of what it returns.
Full(o, ks, sq, mp) ==
  LET n == Call(o, ks, sq, mp)
  IN RunAll(Begin(IF o \in EagerOps THEN n ELSE Construct(n)))

\* Intersect(keys, seqs...) (lines 588-593) and Difference(keys, seqs...)
\* (lines 628-633), fully iterated: keys = intersect(keys, seq) for each
\* seq in turn. A stage ranges over the stage before it and consumes a
\* prefix of what that stage yields, so it computes what it would compute
\* on that stage's whole output.
RECURSIVE Variadic(_, _, _)
Variadic(o, ks, sqs) ==
  IF sqs = <<>> THEN ks
  ELSE Variadic(o, Full(o, ks, Head(sqs), EmptyMap).out, Tail(sqs))

\* An iteration by a consumer that returns at the first element, as the
\* loop body of IsEmpty does (line 976).
RECURSIVE RunFirst(_)
RunFirst(st) ==
  IF st.phase = "done" THEN st
  ELSE RunFirst(StepFn(st, FALSE, Least(Picks(st))))

\* IsEmpty(seq) (lines 974-979): whether the loop ends without an element.
IsEmpty(st) == RunFirst(Begin(st)).out = <<>>

\* IsSubset(keys, seq) (lines 447-449).
IsSubset(ks, sq) == IsEmpty(Construct(Call("Difference", ks, sq, EmptyMap)))

\* ----------------------------------------------------------------- inputs

MapVals == {7, 8}

\* The keys of a map: one more than Vals, so that a map can hold a key that
\* no sequence holds next to keys that only the sequence holds.
MapKeys == 1..NVal + 1

Maps == UNION {[D -> MapVals] : D \in SUBSET MapKeys}

SortedSeqs == {q \in Seqs : IsSorted(q)}

SortedOps == {"SortedUnion", "SortedIntersect", "SortedDifference"}

OneSeqOps == {"Unique", "UniqueBy", "Compact", "CompactBy"}

\* Inputs of the one-sequence functions: one value more than Vals, so that
\* keyFn maps some values to one key and some to different keys.
BySeqs == UNION {[1..n -> 1..NVal + 1] : n \in 0..MaxLen}

TwoSeqOps == {"zip", "Intersect", "Difference", "Equal", "EqualCounts"}

Inputs(o) ==
  CASE o \in TwoSeqOps ->
         {Call(o, ks, sq, EmptyMap) : ks \in Seqs, sq \in Seqs}
    [] o \in SortedOps ->
         {Call(o, ks, sq, EmptyMap) : ks \in SortedSeqs, sq \in SortedSeqs}
    [] o \in OneSeqOps -> {Call(o, ks, <<>>, EmptyMap) : ks \in BySeqs}
    [] o \in MapOps \cup MethodOps ->
         {Call(o, ks, <<>>, mp) : ks \in Seqs, mp \in Maps}

Load(n) ==
  /\ op = n.op /\ keys = n.keys /\ seq = n.seq /\ more = n.more
  /\ m = n.m
  /\ phase = n.phase /\ round = n.round /\ s = n.s /\ pc = n.pc
  /\ i = n.i /\ j = n.j /\ key = n.key /\ k = n.k /\ ok = n.ok
  /\ c = n.c /\ sets = n.sets /\ current = n.current /\ count = n.count
  /\ group = n.group /\ closure = n.closure
  /\ todo = n.todo /\ out = n.out /\ out1 = n.out1 /\ result = n.result
  /\ returned = n.returned /\ pulledK = n.pulledK /\ pulledS = n.pulledS
  /\ created = n.created /\ stopped = n.stopped /\ broke = n.broke
  /\ broke1 = n.broke1 /\ late = n.late /\ m0 = n.m0

\* Nothing sent, nothing pulled.
NoCancel == [sent |-> 0, pulled |-> 0]

\* No goroutine, no channel.
NoGo ==
  /\ size = 0 /\ ch = <<>> /\ closed = FALSE /\ cancelled = FALSE
  /\ wpc = "idle" /\ wval = 0 /\ cpc = "idle" /\ cval = 0 /\ sent = 0
  /\ ctx0 = FALSE /\ atCancel = NoCancel

InitOps(ops) == \E o \in ops : \E n \in Inputs(o) : Load(n) /\ NoGo

\* ---------------------------------------------------------------- actions

\* The call returns the lazy sequence value.
DoConstruct ==
  /\ phase = "new" /\ op \notin EagerOps
  /\ Commit(Construct(St))
  /\ UNCHANGED goVars

\* The consumer starts ranging over the sequence value; an eager function
\* starts its loop.
DoBegin ==
  /\ op \notin GoOps
  /\ \/ phase = "built"
     \/ phase = "new" /\ op \in EagerOps
  /\ Commit(Begin(St))
  /\ UNCHANGED goVars

\* The running iteration advances to its next yield, pull or return; the
\* consumer answers a yield with continue or break.
DoStep ==
  /\ phase = "run" /\ op \notin GoOps
  /\ \E cont \in BOOLEAN : \E pick \in Picks(St) :
       Commit(StepFn(St, cont, pick))
  /\ UNCHANGED goVars

SeqOps == {"zip", "Intersect", "Difference", "Equal", "EqualCounts",
           "SortedUnion",
           "SortedIntersect", "SortedDifference", "Unique", "UniqueBy",
           "Compact", "CompactBy"} \cup MapOps \cup MethodOps

Init == InitOps(SeqOps)

Next == DoConstruct \/ DoBegin \/ DoStep

Spec == Init /\ [][Next]_vars

\* ------------------------------------------ goChan and GoIter (1095-1126)

Sizes == 0..MaxSize

\* Line 1100 with the test inverted, ctx.Err() == nil.
ctxErr_Inverted(cancel) == ~cancel

\* goChan without the test of lines 1100-1102.
ctxErr_Never(cancel) == FALSE

\* ctx.Err() != nil (line 1100)
ctxErr(cancel) == cancel

\* The select of lines 1103-1107 without its case <-ctx.Done().
ctxDone_Never(cancel) == FALSE

\* case <-ctx.Done() of the select can be taken (line 1104)
ctxDone(cancel) == cancel

\* A channel made with room for one value more, make(chan V, size+1).
canSend_OneMore(buf, cap, receiving) ==
  Len(buf) < cap + 1 \/ (buf = <<>> /\ receiving)

\* case ch <- value of the select can be taken (line 1106): the buffer has
\* room, or the receiver waits on the empty channel.
canSend(buf, cap, receiving) == Len(buf) < cap \/ (buf = <<>> /\ receiving)

\* The goroutine returns: its deferred close(ch) runs (line 1098).
WorkerReturn == closed' = TRUE /\ wpc' = "done"

\* The function ranging over the channel returns; GoIter's deferred cancel()
\* runs (line 1119), goChan's caller keeps its context.
ConsumerReturn ==
  /\ cpc' = "done" /\ phase' = "done" /\ pc' = "done"
  /\ cancelled' = (cancelled \/ op = "GoIter")
  /\ atCancel' = IF ~cancelled /\ op = "GoIter"
                 THEN [sent |-> sent, pulled |-> i] ELSE atCancel

\* The consumer starts ranging over GoIter's sequence: context.WithCancel,
\* then goChan makes the channel and starts the goroutine (lines 1118-1120,
\* 1096-1097). goChan called directly does the same with its caller's ctx.
GoStart ==
  /\ op \in GoOps
  /\ \/ phase = "built"
     \/ phase = "new" /\ op \in EagerOps
  /\ phase' = "run" /\ round' = round + 1 /\ pc' = "chan"
  /\ out1' = out /\ out' = <<>> /\ broke1' = broke /\ broke' = FALSE
  /\ ch' = <<>> /\ closed' = FALSE /\ sent' = 0
  /\ cancelled' = IF op = "GoIter" THEN FALSE ELSE cancelled
  /\ ctx0' = (op = "goChan" /\ cancelled)
  /\ atCancel' = NoCancel
  /\ wpc' = "range" /\ cpc' = "recv" /\ wval' = 0 /\ cval' = 0
  /\ i' = 0
  /\ UNCHANGED <<op, keys, seq, more, m, s, j, key, k, ok, c, sets, current,
                 count, group, closure, todo, result, returned, pulledK,
                 pulledS, created, stopped, late, size, m0>>

GoFrame == <<op, keys, seq, more, m, phase, round, s, pc, j, key, k, ok, c,
             sets, current, count, group, closure, todo, out, out1, result,
             returned, pulledS, created, stopped, broke, broke1, late, size,
             ctx0, atCancel, m0>>

\* for value := range seq (line 1099): the next element, or the loop's end.
WorkerRange ==
  /\ wpc = "range"
  /\ IF i < Len(keys)
     THEN /\ wval' = keys[i + 1] /\ i' = i + 1 /\ pulledK' = pulledK + 1
          /\ wpc' = "check" /\ UNCHANGED closed
     ELSE /\ WorkerReturn /\ UNCHANGED <<wval, i, pulledK>>
  /\ UNCHANGED <<GoFrame, ch, cancelled, cpc, cval, sent>>

\* if ctx.Err() != nil { return } (lines 1100-1102)
WorkerCheck ==
  /\ wpc = "check"
  /\ IF ctxErr(cancelled) THEN WorkerReturn
     ELSE wpc' = "select" /\ UNCHANGED closed
  /\ UNCHANGED <<GoFrame, i, pulledK, ch, cancelled, wval, cpc, cval, sent>>

\* select: case <-ctx.Done(): return (lines 1104-1105)
WorkerDone ==
  /\ wpc = "select" /\ ctxDone(cancelled)
  /\ WorkerReturn
  /\ UNCHANGED <<GoFrame, i, pulledK, ch, cancelled, wval, cpc, cval, sent>>

\* select: case ch <- value (line 1106), into the buffer or, on an empty
\* channel with the receiver waiting, straight to the receiver.
WorkerSend ==
  /\ wpc = "select" /\ canSend(ch, size, cpc = "recv")
  /\ IF ch = <<>> /\ cpc = "recv"
     THEN cval' = wval /\ cpc' = "yield" /\ UNCHANGED ch
     ELSE ch' = Append(ch, wval) /\ UNCHANGED <<cval, cpc>>
  /\ sent' = sent + 1 /\ wpc' = "range"
  /\ UNCHANGED <<GoFrame, i, pulledK, closed, cancelled, wval>>

\* for value := range ch: a buffered value is received.
ConsumerRecv ==
  /\ cpc = "recv" /\ ch # <<>>
  /\ cval' = Head(ch) /\ ch' = Tail(ch) /\ cpc' = "yield"
  /\ UNCHANGED <<GoFrame, i, pulledK, closed, cancelled, wpc, wval, sent>>

\* for value := range ch: the channel is closed and drained, the loop ends.
ConsumerEnd ==
  /\ cpc = "recv" /\ ch = <<>> /\ closed
  /\ ConsumerReturn
  /\ UNCHANGED <<op, keys, seq, more, m, round, s, i, j, key, k, ok, c, sets,
                 current, count, group, closure, todo, out, out1, result,
                 returned, pulledK, pulledS, created, stopped, broke, broke1,
                 late, size, ch, closed, wpc, wval, cval, sent, ctx0, m0>>

\* if !yield(value) { return } (lines 1121-1123)
ConsumerYield ==
  /\ cpc = "yield"
  /\ out' = Append(out, cval)
  /\ late' = IF broke THEN late + 1 ELSE late
  /\ \E cont \in BOOLEAN :
       IF cont
       THEN /\ cpc' = "recv"
            /\ UNCHANGED <<broke, phase, pc, cancelled, atCancel>>
       ELSE /\ broke' = TRUE
            /\ ConsumerReturn
  /\ UNCHANGED <<op, keys, seq, more, m, round, s, i, j, key, k, ok, c, sets,
                 current, count, group, closure, todo, out1, result,
                 returned, pulledK, pulledS, created, stopped, broke1,
                 size, ch, closed, wpc, wval, cval, sent, ctx0, m0>>

\* The caller of goChan cancels its context.
Cancel ==
  /\ op = "goChan" /\ ~cancelled
  /\ cancelled' = TRUE
  /\ atCancel' = [sent |-> sent, pulled |-> i]
  /\ UNCHANGED <<seqVars, size, ch, closed, wpc, wval, cpc, cval, sent,
                 ctx0>>

Worker == WorkerRange \/ WorkerCheck \/ WorkerDone \/ WorkerSend

Consumer == ConsumerRecv \/ ConsumerEnd \/ ConsumerYield

\* GoIter(seq, size), and goChan(ctx, seq, size) with ctx live or already
\* cancelled; the sequence is in keys.
InitGo ==
  \E o \in GoOps : \E ks \in Seqs : \E sz \in Sizes : \E cn \in BOOLEAN :
    /\ Load(Call(o, ks, <<>>, EmptyMap))
    /\ size = sz /\ ch = <<>> /\ closed = FALSE
    /\ cancelled = (cn /\ o = "goChan")
    /\ wpc = "idle" /\ wval = 0 /\ cpc = "idle" /\ cval = 0 /\ sent = 0
    /\ ctx0 = FALSE /\ atCancel = NoCancel

NextGo ==
  \/ DoConstruct \/ GoStart
  \/ WorkerRange \/ WorkerCheck \/ WorkerDone \/ WorkerSend
  \/ ConsumerRecv \/ ConsumerEnd \/ ConsumerYield
  \/ Cancel

SpecGo == InitGo /\ [][NextGo]_vars

\* The Go scheduler runs every runnable goroutine, and a yield returns.
SpecGoFair == SpecGo /\ WF_vars(Worker) /\ WF_vars(Consumer)

\* ------------------------------- every lazy sequence, GoIter among them

InitLazy == Init \/ InitGo

NextLazy == Next \/ NextGo

SpecLazy == InitLazy /\ [][NextLazy]_vars

\* ------------------------------- variadic calls, collected by the caller

MaxExtra == 1

VariadicOps == {"Intersect", "Difference"}

\* No sequence after seq, or one.
Extras == {<<>>} \cup {<<q>> : q \in SeqsUpTo(MaxExtra)}

InitVariadic ==
  \E o \in VariadicOps : \E ks \in Seqs : \E sq \in Seqs : \E ex \in Extras :
    /\ Load([Call(o, ks, sq, EmptyMap) EXCEPT !.more = ex])
    /\ NoGo

\* slices.Collect(Intersect(keys, seq, more...)), and so for Difference.
DoCollect ==
  /\ phase = "new" /\ op \in VariadicOps
  /\ Commit([St EXCEPT !.out = Variadic(op, keys, <<seq>> \o more),
                       !.phase = "done"])
  /\ UNCHANGED goVars

SpecVariadic == InitVariadic /\ [][DoCollect]_vars

\* ------------------------------- a sequence value iterated more than once

MaxRounds == 2

MultiOps == {"Difference", "Intersect", "Unique", "UniqueBy", "Compact",
             "CompactBy", "m.Difference", "m.SymmetricDifference"}

\* The consumer ranges over the same sequence value again.
DoAgain ==
  /\ phase = "done" /\ round < MaxRounds /\ op \notin EagerOps
  /\ Commit([St EXCEPT !.phase = "built"])
  /\ UNCHANGED goVars

\* ... after an iteration that ran to its end.
DoRepeat == ~broke /\ DoAgain

InitMulti == InitOps(MultiOps)

NextMulti == DoConstruct \/ DoBegin \/ DoStep \/ DoRepeat

SpecMulti == InitMulti /\ [][NextMulti]_vars

\* ------------------------- iterated again after an iteration left anywhere

\* difference captures the set s made at the call (line 263).
AbandonOps == {"Difference"}

InitAbandon == InitOps(AbandonOps)

NextAbandon == DoConstruct \/ DoBegin \/ DoStep \/ DoAgain

SpecAbandon == InitAbandon /\ [][NextAbandon]_vars

\* ------------------------------- ... and the receiver map changed between

\* SymmetricDifference captures the set s made at the call (line 661).
ModifyOps == {"m.SymmetricDifference"}

\* Between two iterations, before the next one starts, the caller changes
\* the receiver map once, by m.Delete(x) (lines 505-512) or m.Add(x) (lines
\* 483-488, the zero value).
DoModify ==
  /\ phase = "built" /\ round > 0 /\ op \in MapOps /\ m = m0
  /\ \E x \in MapKeys :
       Commit([St EXCEPT !.m = IF x \in DOMAIN m THEN countDelete(m, x)
                               ELSE countSet(m, x, 0)])
  /\ UNCHANGED goVars

InitModify == InitOps(ModifyOps)

NextModify == DoConstruct \/ DoBegin \/ DoStep \/ DoAgain \/ DoModify

SpecModify == InitModify /\ [][NextModify]_vars

\* ---------------------------------------------------------------- properties

\* a is b with some elements left out.
RECURSIVE IsSubseq(_, _)
IsSubseq(a, b) ==
  IF a = <<>> THEN TRUE
  ELSE IF b = <<>> THEN FALSE
  ELSE IF Head(a) = Head(b) THEN IsSubseq(Tail(a), Tail(b))
  ELSE IsSubseq(a, Tail(b))

\* How often x occurs in q.
Occurs(q, x) == Cardinality({n \in 1..Len(q) : q[n] = x})

\* a and b hold the same elements, each as often.
SameBag(a, b) ==
  /\ Len(a) = Len(b)
  /\ \A n \in 1..Len(a) : Occurs(a, a[n]) = Occurs(b, a[n])

\* The sequences after keys of a variadic call.
AllSeqs == <<seq>> \o more

InEvery(x) == \A n \in 1..Len(AllSeqs) : x \in Range(AllSeqs[n])

InNone(x) == \A n \in 1..Len(AllSeqs) : x \notin Range(AllSeqs[n])

\* C1: fully iterated, Intersect(keys, seq_1, ..., seq_n) yields as a set
\* exactly the elements of keys that occur in every seq_i: the early return
\* of intersect skips no common element, and nothing else is yielded.
C1_IntersectSet ==
  (op = "Intersect" /\ phase = "done") =>
    Range(out) = {x \in Range(keys) : InEvery(x)}

\* Two sequences after keys, a common element yielded, an element of keys
\* that is not common, and the first intersect returning by line 312 with
\* keys not yet exhausted.
C1_Witness ==
  /\ op = "Intersect" /\ phase = "done" /\ more # <<>>
  /\ out # <<>> /\ Range(out) # Range(keys)
  /\ Full("Intersect", keys, seq, EmptyMap).i < Len(keys)

\* C2: what Intersect(keys, seq) yields is a subsequence of keys, whatever
\* the order of seq.
C2_IntersectOrder == op = "Intersect" => IsSubseq(out, keys)

\* C3: fully iterated, Difference(keys, seq_1, ..., seq_n) yields the
\* subsequence of keys, every occurrence kept, of the elements that occur in
\* none of the seq_i.
C3_DifferenceSeq ==
  (op = "Difference" /\ phase = "done") =>
    out = SelectSeq(keys, LAMBDA x : InNone(x))

\* Two sequences after keys, an element yielded twice and one left out.
C3_Witness ==
  /\ op = "Difference" /\ phase = "done" /\ more # <<>>
  /\ Len(out) >= 2 /\ out[1] = out[2] /\ Len(out) < Len(keys)
  /\ seq # <<>>

\* The functions that hold a pull-cursor over their second input.
PullOps == {"zip", "Intersect", "Difference", "SortedUnion",
            "SortedIntersect", "SortedDifference"}

\* C4: an iteration of a sequence of zip, difference, intersect, SortedUnion,
\* SortedIntersect or SortedDifference creates one pull-cursor, stops it on
\* no path before it returns, and has stopped it exactly once when it has
\* returned, however it exits.
C4_StopOnce ==
  op \in PullOps =>
    /\ phase = "run" => (stopped = 0 /\ created <= 1)
    /\ phase = "done" => (created = 1 /\ stopped = 1)

\* intersect has returned by line 312: no break, keys not exhausted.
C4_Witness ==
  /\ op = "Intersect" /\ phase = "done" /\ ~broke
  /\ i < Len(keys) /\ out # <<>>
  /\ created = 1 /\ stopped = 1

\* The functions of MultiOps that range over a map.
MapRangeOps == {"m.Difference", "m.SymmetricDifference"}

C6_WorkerTerminates ==
  (op = "GoIter" /\ wpc # "idle") ~> (wpc = "done" /\ closed)

\* The consumer broke, and the goroutine returned holding a value it had
\* pulled and could not send on the unbuffered channel.
C6_Witness ==
  /\ op = "GoIter" /\ broke /\ wpc = "done" /\ closed
  /\ size = 0 /\ sent < i

\* C7: a consumer that iterates GoIter(seq, size) to its end has received
\* the elements of seq, each once and in order.
C7_GoIterAll ==
  (op = "GoIter" /\ phase = "done" /\ ~broke) => out = keys

\* Several values through a buffered channel.
C7_Witness ==
  /\ op = "GoIter" /\ phase = "done" /\ ~broke
  /\ Len(out) >= 2 /\ size >= 1

\* C8: goChan called with an already cancelled context sends no value; its
\* consumer sees an empty sequence and ends on the closed channel.
C8_CancelledSendsNothing ==
  (op = "goChan" /\ ctx0) =>
    /\ sent = 0 /\ ch = <<>> /\ out = <<>> /\ cpc # "yield"
    /\ cpc = "done" => closed

\* A buffered channel with room, a sequence with elements, all over.
C8_Witness ==
  /\ op = "goChan" /\ ctx0 /\ size >= 1 /\ Len(keys) >= 2
  /\ wpc = "done" /\ cpc = "done" /\ closed

\* C9: until the returned sequence is first iterated, nothing has been
\* pulled from the argument sequences.
C9_NoPullBeforeIteration == round = 0 => (pulledK = 0 /\ pulledS = 0)

\* C10: Equal(keys, seq) returns true iff keys and seq hold the same set of
\* elements.
C10_EqualSets ==
  (op = "Equal" /\ phase = "done") => (result <=> Range(keys) = Range(seq))

\* Equal sets of two elements from sequences of different lengths: zip has
\* tagged elements empty, and line 397 has not returned false.
C10_Witness ==
  /\ op = "Equal" /\ phase = "done" /\ result
  /\ Len(keys) # Len(seq) /\ Cardinality(Range(keys)) = 2

\* C11: EqualCounts(keys, seq) returns true iff every element occurs as
\* often in keys as in seq; sequences of different lengths give false.
C11_EqualCounts ==
  (op = "EqualCounts" /\ phase = "done") =>
    /\ result <=> \A x \in Range(keys) \cup Range(seq) :
                     Occurs(keys, x) = Occurs(seq, x)
    /\ Len(keys) # Len(seq) => ~result

\* The same elements as often, with a repeated one, in another order.
C11_Witness ==
  /\ op = "EqualCounts" /\ phase = "done" /\ result
  /\ keys # seq /\ Cardinality(Range(keys)) < Len(keys)
  /\ Cardinality(Range(keys)) >= 2

\* The keys m.Intersect(keys) yields, fully iterated.
IntersectKeys ==
  {p[1] : p \in Range(Full("m.Intersect", keys, <<>>, m).out)}

\* C12: fully iterated, m.SymmetricDifference(keys) yields as a set the
\* elements that are in exactly one of m's keys and keys, and none of the
\* keys that m.Intersect(keys) yields.
C12_SymDiffSet ==
  (op = "m.SymmetricDifference" /\ phase = "done" /\ ~broke) =>
    /\ Range(out) = (DOMAIN m \ Range(keys)) \cup (Range(keys) \ DOMAIN m)
    /\ Range(out) \cap IntersectKeys = {}

\* An element of keys only, a key of m only, and a key of both.
C12_Witness ==
  /\ op = "m.SymmetricDifference" /\ phase = "done" /\ ~broke
  /\ Range(out) \cap DOMAIN m # {} /\ Range(out) \ DOMAIN m # {}
  /\ IntersectKeys # {}

\* What of q is no key of m.
NotInMap(q) == SelectSeq(q, LAMBDA x : x \notin DOMAIN m)

\* C13: in what m.SymmetricDifference(keys) yields, no element of keys
\* comes after a key of m, and the elements of keys come in keys' order.
C13_SymDiffOrder ==
  op = "m.SymmetricDifference" =>
    /\ \A a \in 1..Len(out) : \A b \in a + 1..Len(out) :
         out[a] \in DOMAIN m => out[b] \in DOMAIN m
    /\ NotInMap(out) = SubSeq(NotInMap(keys), 1, Len(NotInMap(out)))

\* Two different elements of keys, then a key of m.
C13_Witness ==
  /\ op = "m.SymmetricDifference" /\ phase = "done" /\ ~broke
  /\ Len(out) >= 3 /\ out[1] # out[2]
  /\ out[2] \notin DOMAIN m /\ out[3] \in DOMAIN m

\* C14: fully iterated, m.Difference(keys) yields the pairs (k, m[k]) with
\* k a key of m that keys does not hold, each once; nothing when keys holds
\* every key of m.
C14_MapDifference ==
  (op = "m.Difference" /\ phase = "done" /\ ~broke) =>
    /\ Range(out) = {<<x, m[x]>> : x \in DOMAIN m \ Range(keys)}
    /\ Len(out) = Cardinality(DOMAIN m \ Range(keys))

\* keys holds both keys of m, and m.intersect stopped before the end of
\* keys.
C14_Witness ==
  /\ op = "m.Difference" /\ phase = "done" /\ ~broke
  /\ len(m) = 2 /\ pulledK < Len(keys) /\ out = <<>>

\* q without every occurrence of an element after its first.
RECURSIVE FirstOccurrences(_)
FirstOccurrences(q) ==
  IF q = <<>> THEN <<>>
  ELSE LET front == FirstOccurrences(SubSeq(q, 1, Len(q) - 1))
       IN IF q[Len(q)] \in Range(front) THEN front
          ELSE Append(front, q[Len(q)])

\* C15: fully iterated, Unique(S) yields the first occurrences of S in S's
\* order, no element twice, and Unique of that yields it again.
C15_Unique ==
  (op = "Unique" /\ phase = "done" /\ ~broke) =>
    /\ out = FirstOccurrences(keys)
    /\ Cardinality(Range(out)) = Len(out)
    /\ Full("Unique", out, <<>>, EmptyMap).out = out

\* An element returns after another one came between.
C15_Witness ==
  /\ op = "Unique" /\ phase = "done" /\ ~broke
  /\ Len(keys) = 3 /\ keys[1] = keys[3] /\ keys[1] # keys[2]

\* The pairs (element, count), each expanded to count copies.
RECURSIVE Expand(_)
Expand(pairs) ==
  IF pairs = <<>> THEN <<>>
  ELSE [n \in 1..Head(pairs)[2] |-> Head(pairs)[1]] \o Expand(Tail(pairs))

\* C16: fully iterated, Compact(S) yields one pair (element, count) per
\* maximal run of S: counts are at least 1, neighbouring pairs hold
\* different elements, and the pairs expand to S.
C16_Compact ==
  (op = "Compact" /\ phase = "done" /\ ~broke) =>
    /\ \A n \in 1..Len(out) : out[n][2] >= 1
    /\ \A n \in 1..Len(out) - 1 : out[n][1] # out[n + 1][1]
    /\ Expand(out) = keys

\* A run of two and a run of one.
C16_Witness ==
  /\ op = "Compact" /\ phase = "done" /\ ~broke
  /\ Len(out) = 2 /\ out[1][2] + out[2][2] = 3

\* C17: fully iterated over non-decreasing A and B, SortedUnion(A, B) yields
\* a non-decreasing sequence of length |A| + |B| that holds every element
\* as often as A and B together.
C17_SortedUnion ==
  (op = "SortedUnion" /\ phase = "done" /\ ~broke) =>
    /\ IsSorted(out)
    /\ Len(out) = Len(keys) + Len(seq)
    /\ \A x \in Range(keys) \cup Range(seq) \cup Range(out) :
         Occurs(out, x) = Occurs(keys, x) + Occurs(seq, x)

\* An element in both A and B, and B going on after A ends.
C17_Witness ==
  /\ op = "SortedUnion" /\ phase = "done" /\ ~broke
  /\ Range(keys) \cap Range(seq) # {}
  /\ keys # <<>> /\ seq # <<>> /\ seq[Len(seq)] > keys[Len(keys)]

\* C18: fully iterated over non-decreasing A and B, SortedIntersect(A, B)
\* yields the same sequence as Intersect(A, B).
C18_SortedIntersectAsIntersect ==
  (op = "SortedIntersect" /\ phase = "done" /\ ~broke) =>
    out = Full("Intersect", keys, seq, EmptyMap).out

\* C19: fully iterated over non-decreasing A and B, SortedDifference(A, B)
\* yields the same sequence as Difference(A, B): the occurrences of the
\* elements of A that B does not hold, also once B is exhausted.
C19_SortedDifferenceAsDifference ==
  (op = "SortedDifference" /\ phase = "done" /\ ~broke) =>
    /\ out = Full("Difference", keys, seq, EmptyMap).out
    /\ out = SelectSeq(keys, LAMBDA x : x \notin Range(seq))

\* An element of A that B holds, then one twice in A after B is exhausted.
C19_Witness ==
  /\ op = "SortedDifference" /\ phase = "done" /\ ~broke
  /\ Len(out) = 2 /\ out[1] = out[2] /\ Len(keys) = 3
  /\ seq # <<>> /\ j = Len(seq) /\ ~ok

\* No element twice in q.
DuplicateFree(q) == Cardinality(Range(q)) = Len(q)

\* Size(seq) (lines 982-988) of what a full iteration yields.
Size(o, ks, sq) == Len(Full(o, ks, sq, EmptyMap).out)

\* C20: for duplicate-free A and B,
\* Size(Intersect(A, B)) + Size(Difference(A, B)) = Size(A).
C20_SizeSplit ==
  (op = "Intersect" /\ phase = "done" /\ ~broke
     /\ DuplicateFree(keys) /\ DuplicateFree(seq)) =>
    Len(out) + Size("Difference", keys, seq) = Len(keys)

\* Both parts non-empty, the common element met in B before it is in A.
C20_Witness ==
  /\ op = "Intersect" /\ phase = "done" /\ ~broke
  /\ DuplicateFree(keys) /\ DuplicateFree(seq)
  /\ out # <<>> /\ Len(out) < Len(keys) /\ seq[1] = keys[Len(keys)]

\* C21: for all finite sequences A and B, duplicates allowed,
\* IsSubset(A, B) and IsSubset(B, A) are both true iff Equal(A, B) is true.
C21_SubsetBothWays ==
  (op = "Equal" /\ phase = "done") =>
    (result <=> (IsSubset(keys, seq) /\ IsSubset(seq, keys)))

\* Equal holds of two sequences of different lengths, one with a repeated
\* element, the elements met in different orders.
C21_Witness ==
  /\ op = "Equal" /\ phase = "done" /\ result
  /\ Len(keys) = 3 /\ Len(seq) = 2 /\ keys[1] # seq[1]

\* What a full iteration of m0.SymmetricDifference(keys) yields, as a set.
SymDiffBefore ==
  Range(Full("m.SymmetricDifference", keys, <<>>, m0).out)

\* Every key of keys that m holds maps to the value given to Toggle.
InsertedHaveValue == \A x \in DOMAIN m \cap Range(keys) : m[x] = value

\* C22 as stated: for every map m and every finite sequence keys, the key set
\* of m after m.Toggle(keys, v) is the set that SymmetricDifference(keys)
\* yields on m as it was before the call, and every inserted key maps to v.
C22_ToggleAnyKeys ==
  (op = "m.Toggle" /\ phase = "done") =>
    (DOMAIN m = SymDiffBefore /\ InsertedHaveValue)

\* C22 amended: the same for every sequence keys without repeated elements.
C22_ToggleDistinctKeys ==
  (op = "m.Toggle" /\ phase = "done" /\ DuplicateFree(keys)) =>
    (DOMAIN m = SymDiffBefore /\ InsertedHaveValue)

\* Toggle removed a key, inserted a key and left a key alone.
C22_Witness ==
  /\ op = "m.Toggle" /\ phase = "done" /\ DuplicateFree(keys)
  /\ Len(keys) = 2 /\ keys[1] \in DOMAIN m0 /\ keys[2] \notin DOMAIN m0
  /\ DOMAIN m0 \ Range(keys) # {} /\ keys[2] \in DOMAIN m

\* The functions and methods that return a lazy sequence.
LazyOps == (SeqOps \ EagerOps) \cup {"GoIter"}

\* C23: no lazy sequence calls yield again after a yield returned false: a
\* break at any element ends the iteration without a further yield.
C23_NoYieldAfterBreak ==
  (op \in LazyOps /\ broke) => (phase = "done" /\ late = 0)

\* Compact left at its first run, with a run counted and elements unread.
C23_Witness ==
  /\ op = "Compact" /\ broke /\ phase = "done"
  /\ Len(out) = 1 /\ count > 0 /\ i < Len(keys)

Min(x, y) == IF x <= y THEN x ELSE y

\* a and b interleaved while both last, then the rest of the longer one;
\* each element with its index, and with empty set on the elements of a
\* beyond the length of b and on the elements of b beyond the length of a.
Zipped(a, b) ==
  LET both == Min(Len(a), Len(b))
  IN [n \in 1..Len(a) + Len(b) |->
        IF n <= 2 * both
        THEN IF n % 2 = 1 THEN <<a[(n + 1) \div 2], 0, FALSE>>
             ELSE <<b[n \div 2], 1, FALSE>>
        ELSE IF Len(a) > both THEN <<a[n - both], 0, TRUE>>
             ELSE <<b[n - both], 1, TRUE>>]

\* C24: a full iteration of zip(A, B) emits every element of A and of B
\* exactly once, A's in order with index 0 and B's in order with index 1;
\* while both last the i-th element of B directly follows the i-th of A; an
\* element of A has empty set iff B was exhausted when it was emitted, an
\* element of B iff it is emitted after A is exhausted.
C24_ZipOrder ==
  (op = "zip" /\ phase = "done" /\ ~broke) => out = Zipped(keys, seq)

\* A pair, then elements of A alone.
C24_Witness ==
  /\ op = "zip" /\ phase = "done" /\ ~broke
  /\ Len(keys) = 3 /\ Len(seq) = 1 /\ Len(out) = 4

\* ... and elements of B alone.
C24_WitnessTail ==
  /\ op = "zip" /\ phase = "done" /\ ~broke
  /\ Len(keys) = 1 /\ Len(seq) = 3 /\ out[4] = <<seq[3], 1, TRUE>>

\* The number of elements of B that zip has emitted.
EmittedB == Cardinality({n \in 1..Len(out) : out[n][2] = 1})

\* C25 as stated: in each round of zip(A, B) the element a of A is emitted
\* before the matching element is pulled from B: the number of elements
\* pulled from B never exceeds the number of B elements emitted.
C25_EmitBeforePull == op = "zip" => pulledS <= EmittedB

\* C25 amended: the matching element is pulled from B before a is emitted,
\* and no further one: the number of elements pulled from B never exceeds
\* the number of B elements emitted plus one, and when a is about to be
\* emitted the pull of its round has been made.
C25_PullBeforeEmit ==
  op = "zip" =>
    /\ pulledS <= EmittedB + 1
    /\ (phase = "run" /\ pc = "first") =>
         /\ i = Len(out) - EmittedB + 1
         /\ pulledS = EmittedB + (IF ok THEN 1 ELSE 0)
         /\ ok <=> (i <= Len(seq))

\* The consumer stopped on the second element of A; its matching element of
\* B was pulled and is never emitted.
C25_Witness ==
  /\ op = "zip" /\ phase = "done" /\ broke
  /\ Len(out) = 3 /\ out[3][2] = 0 /\ pulledS = 2 /\ EmittedB = 1

\* The keys of m among the first n elements of keys.
SeenOfMap(n) == DOMAIN m \cap Range(SubSeq(keys, 1, n))

\* C26: for every map m, the empty map included, and every sequence keys,
\* MapSet.IsSubset(keys) returns true iff every key of m occurs in keys, and
\* no element of keys is pulled at a moment when the number of distinct keys
\* of m already seen equals len(m).
C26_IsSubsetStopsAtMatch ==
  op = "m.IsSubset" =>
    /\ phase = "done" => (result <=> DOMAIN m \subseteq Range(keys))
    /\ pulledK > 0 => Cardinality(SeenOfMap(pulledK - 1)) < len(m)

\* The same for the maps that hold a key.
C26_NonEmptyMap == len(m) > 0 => C26_IsSubsetStopsAtMatch

\* The scan of a non-empty map stopped at the match, one element unread.
C26_NonEmptyReached ==
  /\ op = "m.IsSubset" /\ phase = "done" /\ result
  /\ len(m) = 2 /\ pulledK = 2 /\ Len(keys) = 3

\* The symmetric difference of two sets.
SymDiff(a, b) == (a \ b) \cup (b \ a)

\* A full iteration has yielded the symmetric difference of the keys m
\* holds now and the elements of keys.
YieldsSymDiffNow ==
  (op = "m.SymmetricDifference" /\ phase = "done" /\ ~broke) =>
    Range(out) = SymDiff(DOMAIN m, Range(keys))

\* C27: the matched-set of m.SymmetricDifference(keys) does not outlive an
\* iteration: every iteration of the returned sequence starts with an empty
\* matched-set, and a full iteration yields the symmetric difference of m's
\* key set at the time of that iteration and set(keys), whatever happened in
\* earlier iterations and even when m was modified between them.
C27_MatchedSetFresh ==
  /\ (op = "m.SymmetricDifference" /\ phase = "run" /\ pc = "start") => s = {}
  /\ YieldsSymDiffNow

\* C28: the seen-set difference(keys, seq) keeps across the iterations of
\* one returned sequence is at every moment a subset of the elements of seq;
\* so a full iteration that follows an iteration abandoned at any point
\* yields exactly what a fresh Difference(keys, seq) yields.
C28_SeenWithinSeq ==
  op = "Difference" =>
    /\ s \subseteq Range(seq)
    /\ (round >= 2 /\ phase = "done" /\ ~broke) =>
         out = Full("Difference", keys, seq, EmptyMap).out

\* The first iteration was left at its first element with an element of seq
\* seen; the second one ran to its end, yielded more and skipped a key.
C28_Witness ==
  /\ op = "Difference" /\ round = 2 /\ phase = "done" /\ ~broke /\ broke1
  /\ Len(out1) = 1 /\ Len(out) = 2 /\ Len(keys) = 3
  /\ s # {} /\ Range(keys) \cap s # {}

\* The number of values the consumer has received from the channel: those
\* handed to yield, and the one it holds before the call of yield.
Received == Len(out) + (IF cpc = "yield" THEN 1 ELSE 0)

\* C29: in every state of a GoIter(seq, size) iteration the worker has
\* pulled at most Received + size + 1 elements of seq.
C29_PullAhead == op = "GoIter" => i <= Received + size + 1

\* The bound is met: the buffer is full and the worker holds a value more.
C29_Witness ==
  /\ op = "GoIter" /\ phase = "run" /\ size = 1 /\ Len(ch) = 1
  /\ wpc = "select" /\ i = Received + size + 1 /\ Received > 0

\* Since the cancellation the worker has sent at most one value and pulled
\* at most one element.
OneMoreAfterCancel ==
  (op \in GoOps /\ cancelled /\ ~ctx0) =>
    /\ sent <= atCancel.sent + 1
    /\ i <= atCancel.pulled + 1

\* C30: after the context of goChan is cancelled the worker sends at most
\* one further value and starts at most one further pull before it returns,
\* under every interleaving; the consumer of GoIter is never handed a value
\* after it stopped.
C30_AfterCancel ==
  /\ [](OneMoreAfterCancel /\ (op = "GoIter" => late = 0))
  /\ [][(op = "GoIter" /\ cpc = "done") => out' = out]_vars

\* Cancelled while the worker was in its select: it sent the value it held,
\* pulled one more and returned.
C30_Witness ==
  /\ op = "goChan" /\ cancelled /\ ~ctx0 /\ wpc = "done"
  /\ sent = atCancel.sent + 1 /\ i = atCancel.pulled + 1

=============================================================================
